---- MODULE Spec2Model ----
(***************************************************************************)
(* Model of the data dashboard's API client (utils/api_clients.py) and of  *)
(* its table helpers (utils/data_helpers.py).                              *)
(*                                                                         *)
(*   Spec        the client: get / post behind retry_on_failure,           *)
(*               cached_get behind the TTL cache, health_check             *)
(*   SpecStream  the generator returned by stream_data                     *)
(*   SpecData    process_data and generate_summary_stats                   *)
(***************************************************************************)
EXTENDS Integers, Sequences, FiniteSets, TLC

VARIABLES
    \* ---- API client ----
    now,          \* the clock read by time.sleep and by the cache
    cache,        \* st.cache_data store of cached_get: key -> entry
    pc,           \* position of the call in progress
    op,           \* the public method called
    key,          \* <<endpoint, params>> of the call
    attempt,      \* loop variable of retry_on_failure.wrapper (0-based)
    last_error,   \* local last_error of the wrapper
    log,          \* how each attempt of this call ended (one entry per attempt)
    sleeps,       \* durations of the time.sleep calls of this call, in order
    status,       \* how the public method ended: "returned" / "raised"
    result,       \* the value returned or the exception raised
    jsonErrIsRequestException, \* build: class of the error response.json() raises
    liveCalls,    \* per key: calls of get issued by cached_get
    hits,         \* per key: calls of cached_get answered from the store
    insertedAt,   \* per key: time of the last insertion into the store, -1 if none
    served,       \* how the last cached_get was answered: "hit" / "miss"
    calls,        \* public calls made so far
    ticks,        \* idle periods elapsed so far
    \* ---- stream_data ----
    gen,          \* the generator object: none / created / suspended / finished / raised / closed
    conn,         \* the streamed response's connection: none / open / closed
    lines,        \* lines of the body not yet read by iter_lines
    yielded,      \* records handed to the consumer so far
    streamError,  \* the exception the generator raised, None if none
    abandoned,    \* the consumer has stopped iterating before the end
    \* ---- data helpers ----
    heap,         \* the DataFrame objects alive, by identity (position)
    data,         \* st.session_state.data: an identity, 0 for None
    dpc,          \* position of process_data: idle / loop / returned / raised
    dfArg,        \* identity of the df argument of process_data
    before,       \* value of the df argument when process_data was called
    operations,   \* the operations argument, in the mapping's order
    opsLeft,      \* operations the for loop has not reached yet
    processed,    \* identity bound to processed_df
    dresult,      \* identity returned by process_data, 0 if none
    derror,       \* exception raised by process_data, None if none
    assignBack,   \* the call is render_sidebar's, which stores the result
    stats         \* last result of generate_summary_stats

apiVars == <<now, cache, pc, op, key, attempt, last_error, log, sleeps, status,
             result, jsonErrIsRequestException, liveCalls, hits, insertedAt,
             served, calls, ticks>>

streamVars == <<gen, conn, lines, yielded, streamError, abandoned>>

dataVars == <<heap, data, dpc, dfArg, before, operations, opsLeft, processed,
              dresult, derror, assignBack, stats>>

vars == <<apiVars, streamVars, dataVars>>

\* ---- bounds of the model ----
MaxCalls == 3
MaxTicks == 2
MaxLines == 3
MaxRows == 2

\* ---- program constants ----
max_retries == 3
delay == 1
TTL == 3600

(***************************************************************************)
(* Values: None, decoded JSON bodies, exceptions, booleans.                *)
(***************************************************************************)
None == [t |-> "none", k |-> "", s |-> "", n |-> 0]
Json(kind, st) == [t |-> "json", k |-> kind, s |-> st, n |-> 0]
Exc(cls, at) == [t |-> "exc", k |-> cls, s |-> "", n |-> at]
Bool(b) == [t |-> "bool", k |-> IF b THEN "true" ELSE "false", s |-> "", n |-> 0]

\* decoded bodies the server may send: for the health endpoint, objects with
\* and without a status field and a body that is no object; for a data
\* endpoint, two different payloads
BodiesOf(endpoint) ==
    IF endpoint = "health"
    THEN { Json("object", "healthy"), Json("object", "down"),
           Json("object", "absent"), Json("list", "absent") }
    ELSE { Json("object", "absent"), Json("list", "absent") }

\* what one HTTP exchange with an endpoint can meet: no connection, a
\* non-2xx status, a 2xx status with a body that is no JSON, a 2xx status
\* with a JSON body
ResponsesOf(endpoint) ==
    { [net |-> "fail", code |-> 0, text |-> "", body |-> None] }
    \cup { [net |-> "ok", code |-> c, text |-> "any", body |-> None] : c \in {404, 500} }
    \cup { [net |-> "ok", code |-> 200, text |-> "garbage", body |-> None] }
    \cup { [net |-> "ok", code |-> 200, text |-> "json", body |-> b] : b \in BodiesOf(endpoint) }

Keys == { <<"users", "none">>, <<"users", "p1">> }
HealthKey == <<"health", "none">>

(***************************************************************************)
(* retry_on_failure and the decorated get / post                           *)
(***************************************************************************)

\* The body of get / post on the n-th attempt, given what the exchange meets:
\* session.get / session.post raises on a transport failure, raise_for_status
\* raises HTTPError on a non-2xx status, response.json() raises on a body
\* that is no JSON, otherwise the decoded body is returned.
Request(resp, n) ==
    IF resp.net = "fail" THEN [raised |-> TRUE, val |-> Exc("ConnectionError", n)]
    ELSE IF resp.code < 200 \/ resp.code >= 300
         THEN [raised |-> TRUE, val |-> Exc("HTTPError", n)]
    ELSE IF resp.text # "json"
         THEN [raised |-> TRUE, val |-> Exc("JSONDecodeError", n)]
    ELSE [raised |-> FALSE, val |-> resp.body]

\* variant: only connection failures are caught by the wrapper
IsRequestException_TransportOnly(e) == e.k = "ConnectionError"

\* except requests.exceptions.RequestException: ConnectionError and HTTPError
\* are subclasses; the decode error of response.json() is one in the builds
\* of requests that raise requests.exceptions.JSONDecodeError, and a plain
\* ValueError in the others.
IsRequestException(e) ==
    \/ e.k \in {"ConnectionError", "HTTPError"}
    \/ e.k = "JSONDecodeError" /\ jsonErrIsRequestException

\* variant: the loop runs one attempt short
InRange_Short(a) == a < max_retries - 1

\* for attempt in range(max_retries)
InRange(a) == a < max_retries

\* variant: the wrapper sleeps after the final attempt too
ShouldSleep_Always(a) == a < max_retries

\* if attempt < max_retries - 1
ShouldSleep(a) == a < max_retries - 1

\* variant: the multiplier is the 0-based loop variable
SleepDuration_ZeroBased(a) == delay * a

\* time.sleep(delay * (attempt + 1))
SleepDuration(a) == delay * (a + 1)

\* the entry st.cache_data keeps for a key
NoEntry == [present |-> FALSE, value |-> None, expires |-> 0]
Entry(v, t) == [present |-> TRUE, value |-> v, expires |-> t + TTL]

\* variant: an entry is still served at the instant of its expiry
CacheFresh_Inclusive(k) == cache[k].present /\ now <= cache[k].expires

\* an entry is served while the clock is before its expiry
CacheFresh(k) == cache[k].present /\ now < cache[k].expires

\* response.get('status') == 'healthy' on the decoded body; a body that is
\* no object has no .get and raises inside the try
HealthOf(body) ==
    IF body.k = "object" THEN [raised |-> FALSE, val |-> Bool(body.s = "healthy")]
    ELSE [raised |-> TRUE, val |-> Exc("AttributeError", 0)]

\* variant: except requests.exceptions.RequestException instead of a bare except
HealthCheck_NarrowExcept(kind, v) ==
    IF kind = "raised" /\ IsRequestException(v) THEN [raised |-> FALSE, val |-> Bool(FALSE)]
    ELSE IF kind = "raised" THEN [raised |-> TRUE, val |-> v]
    ELSE HealthOf(v)

\* health_check, given how self.get('health') ended: the bare except turns
\* every exception, of get and of response.get alike, into return False
HealthCheck(kind, v) ==
    IF kind = "raised" THEN [raised |-> FALSE, val |-> Bool(FALSE)]
    ELSE IF HealthOf(v).raised THEN [raised |-> FALSE, val |-> Bool(FALSE)]
    ELSE HealthOf(v)

\* The wrapper leaves with a value (kind = "returned") or an exception
\* (kind = "raised"); the public method that called get / post finishes.
Finish(kind, v) ==
    /\ pc' = "done"
    /\ IF op = "health_check"
       THEN /\ status' = IF HealthCheck(kind, v).raised THEN "raised" ELSE "returned"
            /\ result' = HealthCheck(kind, v).val
            /\ UNCHANGED <<cache, insertedAt>>
       ELSE IF op = "cached_get" /\ kind = "returned"
       THEN /\ status' = "returned"
            /\ result' = v
            /\ cache' = [cache EXCEPT ![key] = Entry(v, now)]
            /\ insertedAt' = [insertedAt EXCEPT ![key] = now]
       ELSE /\ status' = kind
            /\ result' = v
            /\ UNCHANGED <<cache, insertedAt>>

Idle == pc \in {"idle", "done"}

\* entering the wrapper: last_error = None, then the for loop
Enter(o, k) ==
    /\ op' = o
    /\ key' = k
    /\ attempt' = 0
    /\ last_error' = None
    /\ log' = <<>>
    /\ sleeps' = <<>>
    /\ status' = "none"
    /\ result' = None
    /\ pc' = "loop"
    /\ calls' = calls + 1

CallGet(k) ==
    /\ Idle /\ calls < MaxCalls
    /\ Enter("get", k)
    /\ served' = "none"
    /\ UNCHANGED <<now, cache, jsonErrIsRequestException, liveCalls, hits, insertedAt, ticks>>
    /\ UNCHANGED <<streamVars, dataVars>>

CallPost(k) ==
    /\ Idle /\ calls < MaxCalls
    /\ Enter("post", k)
    /\ served' = "none"
    /\ UNCHANGED <<now, cache, jsonErrIsRequestException, liveCalls, hits, insertedAt, ticks>>
    /\ UNCHANGED <<streamVars, dataVars>>

CallHealthCheck ==
    /\ Idle /\ calls < MaxCalls
    /\ Enter("health_check", HealthKey)
    /\ served' = "none"
    /\ UNCHANGED <<now, cache, jsonErrIsRequestException, liveCalls, hits, insertedAt, ticks>>
    /\ UNCHANGED <<streamVars, dataVars>>

\* cached_get with a fresh entry: the stored value is returned, get is not called
CachedGetHit(k) ==
    /\ Idle /\ calls < MaxCalls
    /\ CacheFresh(k)
    /\ op' = "cached_get" /\ key' = k
    /\ attempt' = 0 /\ last_error' = None /\ log' = <<>> /\ sleeps' = <<>>
    /\ status' = "returned"
    /\ result' = cache[k].value
    /\ pc' = "done"
    /\ calls' = calls + 1
    /\ hits' = [hits EXCEPT ![k] = @ + 1]
    /\ served' = "hit"
    /\ UNCHANGED <<now, cache, jsonErrIsRequestException, liveCalls, insertedAt, ticks>>
    /\ UNCHANGED <<streamVars, dataVars>>

\* cached_get with no entry or an expired one: the body runs self.get
CachedGetMiss(k) ==
    /\ Idle /\ calls < MaxCalls
    /\ ~CacheFresh(k)
    /\ Enter("cached_get", k)
    /\ liveCalls' = [liveCalls EXCEPT ![k] = @ + 1]
    /\ served' = "miss"
    /\ UNCHANGED <<now, cache, jsonErrIsRequestException, hits, insertedAt, ticks>>
    /\ UNCHANGED <<streamVars, dataVars>>

\* top of the for loop with an attempt left
LoopNext ==
    /\ pc = "loop" /\ InRange(attempt)
    /\ pc' = "try"
    /\ UNCHANGED <<now, cache, op, key, attempt, last_error, log, sleeps, status,
                   result, jsonErrIsRequestException, liveCalls, hits, insertedAt,
                   served, calls, ticks>>
    /\ UNCHANGED <<streamVars, dataVars>>

\* the for loop is exhausted: raise last_error
RaiseLast ==
    /\ pc = "loop" /\ ~InRange(attempt)
    /\ Finish("raised", last_error)
    /\ UNCHANGED <<now, op, key, attempt, last_error, log, sleeps,
                   jsonErrIsRequestException, liveCalls, hits, served, calls, ticks>>
    /\ UNCHANGED <<streamVars, dataVars>>

\* try: return func(*args, **kwargs)   except RequestException as e: ...
Attempt(resp) ==
    /\ pc = "try"
    /\ LET r == Request(resp, attempt + 1) IN
       /\ log' = Append(log, r)
       /\ IF ~r.raised
          THEN /\ Finish("returned", r.val)
               /\ UNCHANGED <<attempt, last_error>>
          ELSE IF IsRequestException(r.val)
          THEN /\ last_error' = r.val
               /\ IF ShouldSleep(attempt)
                  THEN pc' = "sleep" /\ attempt' = attempt
                  ELSE pc' = "loop" /\ attempt' = attempt + 1
               /\ UNCHANGED <<status, result, cache, insertedAt>>
          ELSE /\ Finish("raised", r.val)
               /\ UNCHANGED <<attempt, last_error>>
    /\ UNCHANGED <<now, op, key, sleeps, jsonErrIsRequestException, liveCalls,
                   hits, served, calls, ticks>>
    /\ UNCHANGED <<streamVars, dataVars>>

\* time.sleep(delay * (attempt + 1)), then the next iteration
Sleep ==
    /\ pc = "sleep"
    /\ now' = now + SleepDuration(attempt)
    /\ sleeps' = Append(sleeps, SleepDuration(attempt))
    /\ attempt' = attempt + 1
    /\ pc' = "loop"
    /\ UNCHANGED <<cache, op, key, last_error, log, status, result,
                   jsonErrIsRequestException, liveCalls, hits, insertedAt,
                   served, calls, ticks>>
    /\ UNCHANGED <<streamVars, dataVars>>

\* The script run that made the call ends (its locals are dropped) and the
\* user waits dt before the next interaction.
Tick(dt) ==
    /\ pc = "done" /\ ticks < MaxTicks
    /\ now' = now + dt
    /\ ticks' = ticks + 1
    /\ pc' = "idle" /\ op' = "none" /\ key' = HealthKey
    /\ attempt' = 0 /\ last_error' = None /\ log' = <<>> /\ sleeps' = <<>>
    /\ status' = "none" /\ result' = None /\ served' = "none"
    /\ UNCHANGED <<cache, jsonErrIsRequestException, liveCalls, hits, insertedAt, calls>>
    /\ UNCHANGED <<streamVars, dataVars>>

TickSteps == {TTL - 1, TTL}


(***************************************************************************)
(* stream_data: a generator around a streamed response                     *)
(***************************************************************************)

RECURSIVE SeqsUpTo(_, _)
SeqsUpTo(S, n) ==
    IF n = 0 THEN { <<>> }
    ELSE LET shorter == SeqsUpTo(S, n - 1) IN
         shorter \cup { Append(q, x) : q \in { r \in shorter : Len(r) = n - 1 }, x \in S }

\* a line of the body: empty (a keep-alive), a JSON record, or text that is
\* no JSON
LineKinds == {"", "record", "garbage"}
StreamBodies == SeqsUpTo(LineKinds, MaxLines)

\* variant: the response is closed only after the loop, without a with block
ConnAfterWith_NoWith(how) == IF how = "exhausted" THEN "closed" ELSE "open"

\* leaving the with block, normally or by an exception, closes the response
ConnAfterWith(how) == "closed"

RECURSIVE SkipEmpty(_)
\* for line in response.iter_lines(): if line: ...   (empty lines are skipped)
SkipEmpty(q) == IF q # <<>> /\ Head(q) = "" THEN SkipEmpty(Tail(q)) ELSE q

\* The for loop runs, inside the with block whose response has connection
\* state c, until the next yield, the end of the body or an exception of
\* json.loads.
Resume(rest, c) ==
    LET q == SkipEmpty(rest) IN
    IF q = <<>>
    THEN /\ gen' = "finished"
         /\ conn' = ConnAfterWith("exhausted")
         /\ lines' = <<>>
         /\ UNCHANGED <<yielded, streamError>>
    ELSE IF Head(q) = "record"
    THEN /\ gen' = "suspended"
         /\ lines' = Tail(q)
         /\ yielded' = yielded + 1
         /\ conn' = c
         /\ UNCHANGED streamError
    ELSE /\ gen' = "raised"
         /\ streamError' = Exc("JSONDecodeError", 0)
         /\ conn' = ConnAfterWith("exception")
         /\ lines' = Tail(q)
         /\ UNCHANGED yielded

\* client.stream_data(endpoint, params): the generator object is made, none
\* of its code has run
StreamCall ==
    /\ gen \in {"none", "finished", "raised", "closed"}
    /\ gen' = "created"
    /\ conn' = "none"
    /\ lines' = <<>>
    /\ yielded' = 0
    /\ streamError' = None
    /\ abandoned' = FALSE
    /\ UNCHANGED <<apiVars, dataVars>>

\* first next(): session.get(url, stream=True) cannot connect
StreamConnectFails ==
    /\ gen = "created" /\ ~abandoned
    /\ gen' = "raised"
    /\ streamError' = Exc("ConnectionError", 0)
    /\ UNCHANGED <<conn, lines, yielded, abandoned>>
    /\ UNCHANGED <<apiVars, dataVars>>

\* first next(): the response arrives with a non-2xx status and
\* raise_for_status raises inside the with block
StreamHttpError(code) ==
    /\ gen = "created" /\ ~abandoned
    /\ gen' = "raised"
    /\ streamError' = Exc("HTTPError", 0)
    /\ conn' = ConnAfterWith("exception")
    /\ UNCHANGED <<lines, yielded, abandoned>>
    /\ UNCHANGED <<apiVars, dataVars>>

\* first next(): the response arrives with a 2xx status and the loop starts
StreamOpen(body) ==
    /\ gen = "created" /\ ~abandoned
    /\ Resume(body, "open")
    /\ UNCHANGED abandoned
    /\ UNCHANGED <<apiVars, dataVars>>

\* a later next(): the generator resumes after its yield
StreamNext ==
    /\ gen = "suspended" /\ ~abandoned
    /\ Resume(lines, conn)
    /\ UNCHANGED abandoned
    /\ UNCHANGED <<apiVars, dataVars>>

\* the consumer stops iterating; the generator object stays as it is
StreamStop ==
    /\ gen \in {"created", "suspended"} /\ ~abandoned
    /\ abandoned' = TRUE
    /\ UNCHANGED <<gen, conn, lines, yielded, streamError>>
    /\ UNCHANGED <<apiVars, dataVars>>

\* the abandoned generator is closed (close() or its finalisation when it is
\* collected): GeneratorExit is raised at the yield and leaves the with block
StreamClose ==
    /\ abandoned /\ gen \in {"created", "suspended"}
    /\ gen' = "closed"
    /\ conn' = IF gen = "suspended" THEN ConnAfterWith("exception") ELSE conn
    /\ UNCHANGED <<lines, yielded, streamError, abandoned>>
    /\ UNCHANGED <<apiVars, dataVars>>

NextStream ==
    \/ StreamCall
    \/ StreamConnectFails
    \/ \E code \in {404, 500} : StreamHttpError(code)
    \/ \E body \in StreamBodies : StreamOpen(body)
    \/ StreamNext
    \/ StreamStop
    \/ StreamClose


(***************************************************************************)
(* data_helpers: tables, process_data, generate_summary_stats              *)
(***************************************************************************)

\* a missing value (NaN / None) of a column
NaN == -1
Vals == {1, 2, NaN}
ColNames == {"a", "b"}
Dtypes == {"int64", "float64", "int32", "float32", "bool", "datetime64[ns]",
           "object", "category"}

RowsSet == [ColNames -> Vals]

\* A DataFrame: its columns in order, the name of its index level ("" for
\* the default RangeIndex), the declared type of each name, its rows.
Frame(cols, idx, dts, rs) ==
    [columns |-> cols, index |-> idx, dtypes |-> dts, rows |-> rs]

\* the tables a user may upload: every row content under float columns, and
\* every combination of declared types over a table of no row or one row
Tables ==
    { Frame(<<"a", "b">>, "", [c \in ColNames |-> "float64"], q) :
          q \in SeqsUpTo(RowsSet, MaxRows) }
    \cup
    { Frame(<<"a", "b">>, "", d, q) :
          d \in [ColNames -> Dtypes], q \in { <<>>, <<[a |-> 1, b |-> 2]>> } }

ColumnSet(T) == { T.columns[i] : i \in DOMAIN T.columns }

\* elementwise == of a column with a scalar: a missing value equals nothing
Eq(x, v) == x # NaN /\ v # NaN /\ x = v

RECURSIVE BoolIndex(_, _)
\* df[mask]: the rows whose mask entry is true, in order
BoolIndex(rs, mask) ==
    IF rs = <<>> THEN <<>>
    ELSE IF Head(mask) THEN <<Head(rs)>> \o BoolIndex(Tail(rs), Tail(mask))
    ELSE BoolIndex(Tail(rs), Tail(mask))

KeyError == Exc("KeyError", 0)
Ok(T) == [raised |-> FALSE, table |-> T, err |-> None]
Raise(e) == [raised |-> TRUE, table |-> Frame(<<>>, "", <<>>, <<>>), err |-> e]

\* variant: the mask is built with != instead of ==
FilterEq_NotEqual(T, col, v) ==
    IF col \notin ColumnSet(T) THEN Raise(KeyError)
    ELSE Ok([T EXCEPT !.rows =
               BoolIndex(T.rows, [i \in DOMAIN T.rows |-> ~Eq(T.rows[i][col], v)])])

\* processed_df[processed_df[col] == value]
FilterEq(T, col, v) ==
    IF col \notin ColumnSet(T) THEN Raise(KeyError)
    ELSE Ok([T EXCEPT !.rows =
               BoolIndex(T.rows, [i \in DOMAIN T.rows |-> Eq(T.rows[i][col], v)])])

RECURSIVE FilterItems(_, _)
\* for col, value in params.items(): ...
FilterItems(T, items) ==
    IF items = <<>> THEN Ok(T)
    ELSE LET r == FilterEq(T, Head(items).col, Head(items).value) IN
         IF r.raised THEN r ELSE FilterItems(r.table, Tail(items))

RECURSIVE SortSet(_)
\* the elements of a set of numbers in ascending order
SortSet(S) ==
    IF S = {} THEN <<>>
    ELSE LET m == CHOOSE x \in S : \A y \in S : x <= y IN <<m>> \o SortSet(S \ {m})

RECURSIVE GroupSum(_, _, _, _)
\* sum of the non-missing values of column c over the rows whose key is k
GroupSum(rs, by, k, c) ==
    IF rs = <<>> THEN 0
    ELSE (IF Head(rs)[by] = k /\ Head(rs)[c] # NaN THEN Head(rs)[c] ELSE 0)
         + GroupSum(Tail(rs), by, k, c)

\* processed_df.groupby(by).agg({c: 'sum'}): one row per key that is not
\* missing, keys ascending; the key becomes the index, c the only column
GroupAgg(T, by, c) ==
    IF by \notin ColumnSet(T) \cup ({T.index} \ {""}) THEN Raise(KeyError)
    ELSE IF c \notin ColumnSet(T) \ {by} THEN Raise(KeyError)
    ELSE LET keys == SortSet({ T.rows[i][by] : i \in DOMAIN T.rows } \ {NaN}) IN
         Ok(Frame(<<c>>, by, T.dtypes,
                  [i \in DOMAIN keys |->
                      [n \in ColNames |->
                          IF n = by THEN keys[i]
                          ELSE IF n = c THEN GroupSum(T.rows, by, keys[i], c)
                          ELSE NaN]]))

\* x is placed strictly before y by sort_values (missing values last)
SortsBefore(x, y, asc) ==
    x # NaN /\ (y = NaN \/ IF asc THEN x < y ELSE x > y)

Perms(n) == { f \in [1..n -> 1..n] : \A i, j \in 1..n : i # j => f[i] # f[j] }

\* processed_df.sort_values(by=..., ascending=...): the default sort is not
\* stable, so every ordering of the rows that is sorted on the key can come
\* out
SortValues(T, by, asc) ==
    IF by \notin ColumnSet(T) \cup ({T.index} \ {""}) THEN { Raise(KeyError) }
    ELSE { Ok([T EXCEPT !.rows = [i \in DOMAIN T.rows |-> T.rows[f[i]]]]) :
             f \in { g \in Perms(Len(T.rows)) :
                       \A i, j \in 1..Len(T.rows) :
                          i < j => ~SortsBefore(T.rows[g[j]][by], T.rows[g[i]][by], asc) } }

\* one operation of the mapping
FilterOp(items) == [kind |-> "filter", items |-> items, by |-> "", agg |-> "", ascending |-> TRUE]
GroupOp(by, c) == [kind |-> "group", items |-> <<>>, by |-> by, agg |-> c, ascending |-> TRUE]
SortOp(by, asc) == [kind |-> "sort", items |-> <<>>, by |-> by, agg |-> "", ascending |-> asc]
OtherOp == [kind |-> "other", items |-> <<>>, by |-> "", agg |-> "", ascending |-> TRUE]
Item(c, v) == [col |-> c, value |-> v]

\* the body of the for loop for one (op, params): the outcomes it can have
ApplyOp(T, o) ==
    IF o.kind = "filter" THEN { FilterItems(T, o.items) }
    ELSE IF o.kind = "group" THEN { GroupAgg(T, o.by, o.agg) }
    ELSE IF o.kind = "sort" THEN SortValues(T, o.by, o.ascending)
    ELSE { Ok(T) }

\* single operations with every parameter, "zz" naming no column
SingleOps ==
    { FilterOp(<<Item(c, v)>>) : c \in ColNames \cup {"zz"}, v \in Vals }
    \cup { FilterOp(<<Item("a", v), Item("b", w)>>) : v \in {1, NaN}, w \in {2} }
    \cup { GroupOp("a", "b"), GroupOp("b", "a"), GroupOp("zz", "a"), GroupOp("a", "zz") }
    \cup { SortOp(c, asc) : c \in ColNames \cup {"zz"}, asc \in BOOLEAN }
    \cup { OtherOp }

\* the operations combined: every order of two and of three different kinds
CoreOps == { FilterOp(<<Item("a", 1)>>), GroupOp("a", "b"), SortOp("b", FALSE) }
OperationInputs ==
    { <<>> } \cup { <<o>> : o \in SingleOps }
    \cup { q \in { <<o1, o2>> : o1 \in CoreOps, o2 \in CoreOps } : q[1] # q[2] }
    \cup { q \in { <<o1, o2, o3>> : o1 \in CoreOps, o2 \in CoreOps, o3 \in CoreOps } :
               q[1] # q[2] /\ q[1] # q[3] /\ q[2] # q[3] }

\* variant: processed_df = df, without the copy
DfCopy_Alias(h, id) == [heap |-> h, id |-> id]

\* df.copy(): a new object with the same value
DfCopy(h, id) == [heap |-> Append(h, h[id]), id |-> Len(h) + 1]

NoFrame == Frame(<<>>, "", <<>>, <<>>)
NoStats == [computed |-> FALSE, row_count |-> 0, column_count |-> 0,
            numeric_columns |-> <<>>, categorical_columns |-> <<>>,
            missing_values |-> <<>>, categorical_summary |-> <<>>]

\* load_data on the upload page: session_state.data is a new table. (A later
\* upload starts over from the same states, so the first one is modelled.)
Upload(T) ==
    /\ data = 0
    /\ heap' = <<T>>
    /\ data' = 1
    /\ dpc' = "idle"
    /\ dfArg' = 0 /\ before' = NoFrame /\ operations' = <<>> /\ opsLeft' = <<>>
    /\ processed' = 0 /\ dresult' = 0 /\ derror' = None /\ assignBack' = FALSE
    /\ stats' = NoStats
    /\ UNCHANGED <<apiVars, streamVars>>

\* process_data(df, operations) is entered: processed_df = df.copy().
\* Objects no longer referenced are gone: the session's table is object 1.
Enter_process_data(ops, back) ==
    /\ dpc \in {"idle", "returned", "raised"}
    /\ data # 0
    /\ LET c == DfCopy(<<heap[data]>>, 1) IN
       /\ heap' = c.heap
       /\ processed' = c.id
    /\ data' = 1
    /\ dfArg' = 1
    /\ before' = heap[data]
    /\ operations' = ops
    /\ opsLeft' = ops
    /\ dresult' = 0
    /\ derror' = None
    /\ assignBack' = back
    /\ dpc' = "loop"
    /\ UNCHANGED stats
    /\ UNCHANGED <<apiVars, streamVars>>

\* a direct call with any operations mapping
ProcessCall(ops) == Enter_process_data(ops, FALSE)

\* render_sidebar: "Apply Filter" with a column of the table and one of the
\* values of that column
ApplyFilter(col, v) ==
    /\ data # 0
    /\ col \in ColumnSet(heap[data])
    /\ v \in { heap[data].rows[i][col] : i \in DOMAIN heap[data].rows }
    /\ Enter_process_data(<<FilterOp(<<Item(col, v)>>)>>, TRUE)

\* one turn of for op, params in operations.items()
ProcessOp ==
    /\ dpc = "loop" /\ opsLeft # <<>>
    /\ \E out \in ApplyOp(heap[processed], Head(opsLeft)) :
          IF out.raised
          THEN /\ dpc' = "raised"
               /\ derror' = out.err
               /\ UNCHANGED <<heap, processed, opsLeft>>
          ELSE /\ heap' = Append(heap, out.table)
               /\ processed' = Len(heap) + 1
               /\ opsLeft' = Tail(opsLeft)
               /\ UNCHANGED <<dpc, derror>>
    /\ UNCHANGED <<data, dfArg, before, operations, dresult, assignBack, stats>>
    /\ UNCHANGED <<apiVars, streamVars>>

\* return processed_df; render_sidebar stores it in session_state.data
ProcessReturn ==
    /\ dpc = "loop" /\ opsLeft = <<>>
    /\ dpc' = "returned"
    /\ dresult' = processed
    /\ data' = IF assignBack THEN processed ELSE data
    /\ UNCHANGED <<heap, dfArg, before, operations, opsLeft, processed, derror,
                   assignBack, stats>>
    /\ UNCHANGED <<apiVars, streamVars>>

\* df.select_dtypes(include=...).columns
SelectDtypes(T, include) ==
    SelectSeq(T.columns, LAMBDA c : T.dtypes[c] \in include)

\* number of missing values of a column
Missing(T, c) == Cardinality({ i \in DOMAIN T.rows : T.rows[i][c] = NaN })

\* df[col].value_counts(): each value present that is not missing, with its count
ValueCounts(T, c) ==
    [v \in { T.rows[i][c] : i \in DOMAIN T.rows } \ {NaN} |->
        Cardinality({ i \in DOMAIN T.rows : T.rows[i][c] = v })]

\* generate_summary_stats(df), without the describe() table
SummaryStats(T) ==
    LET numeric_cols == SelectDtypes(T, {"int64", "float64"})
        categorical_cols == SelectDtypes(T, {"object", "category"})
    IN [computed |-> TRUE,
        row_count |-> Len(T.rows),
        column_count |-> Len(T.columns),
        numeric_columns |-> numeric_cols,
        categorical_columns |-> categorical_cols,
        missing_values |-> [c \in ColumnSet(T) |-> Missing(T, c)],
        categorical_summary |->
            [i \in DOMAIN categorical_cols |-> ValueCounts(T, categorical_cols[i])]]

\* render_analysis_page: stats = generate_summary_stats(session_state.data)
Summarize ==
    /\ dpc \in {"idle", "returned", "raised"}
    /\ data # 0
    /\ stats' = SummaryStats(heap[data])
    /\ UNCHANGED <<heap, data, dpc, dfArg, before, operations, opsLeft, processed,
                   dresult, derror, assignBack>>
    /\ UNCHANGED <<apiVars, streamVars>>

NextData ==
    \/ \E T \in Tables : Upload(T)
    \/ \E ops \in OperationInputs : ProcessCall(ops)
    \/ \E col \in ColNames, v \in Vals : ApplyFilter(col, v)
    \/ ProcessOp
    \/ ProcessReturn
    \/ Summarize

Init ==
    /\ now = 0
    /\ cache = [k \in Keys |-> NoEntry]
    /\ pc = "idle"
    /\ op = "none"
    /\ key = HealthKey
    /\ attempt = 0
    /\ last_error = None
    /\ log = <<>>
    /\ sleeps = <<>>
    /\ status = "none"
    /\ result = None
    /\ jsonErrIsRequestException \in BOOLEAN
    /\ liveCalls = [k \in Keys |-> 0]
    /\ hits = [k \in Keys |-> 0]
    /\ insertedAt = [k \in Keys |-> -1]
    /\ served = "none"
    /\ calls = 0
    /\ ticks = 0
    /\ gen = "none"
    /\ conn = "none"
    /\ lines = <<>>
    /\ yielded = 0
    /\ streamError = None
    /\ abandoned = FALSE
    /\ heap = <<>>
    /\ data = 0
    /\ dpc = "idle"
    /\ dfArg = 0
    /\ before = NoFrame
    /\ operations = <<>>
    /\ opsLeft = <<>>
    /\ processed = 0
    /\ dresult = 0
    /\ derror = None
    /\ assignBack = FALSE
    /\ stats = NoStats

\* the wrapper's own steps, shared by every decorated call
Wrapper ==
    \/ LoopNext
    \/ RaiseLast
    \/ \E resp \in ResponsesOf(key[1]) : Attempt(resp)
    \/ Sleep

\* get, post and health_check called directly
Next ==
    \/ \E k \in Keys : CallGet(k)
    \/ \E k \in Keys : CallPost(k)
    \/ CallHealthCheck
    \/ Wrapper

\* cached_get called from the API page, with time passing between calls
NextCache ==
    \/ \E k \in Keys : CachedGetHit(k)
    \/ \E k \in Keys : CachedGetMiss(k)
    \/ \E dt \in TickSteps : Tick(dt)
    \/ Wrapper

Spec == Init /\ [][Next]_vars

SpecCache == Init /\ [][NextCache]_vars

SpecStream == Init /\ [][NextStream]_vars

SpecData == Init /\ [][NextData]_vars

(***************************************************************************)
(* Properties of the client                                                *)
(***************************************************************************)

IsTransport(r) == r.raised /\ r.val.k = "ConnectionError"
IsHttpError(r) == r.raised /\ r.val.k = "HTTPError"
AllOf(P(_)) == \A i \in 1..Len(log) : P(log[i])
Running == pc \in {"loop", "try", "sleep"}
RECURSIVE SumSeq(_)
SumSeq(q) == IF q = <<>> THEN 0 ELSE Head(q) + SumSeq(Tail(q))

\* a call of cached_get(k) starts in this step
CachedGetStarts(k) ==
    Idle /\ calls' = calls + 1 /\ op' = "cached_get" /\ key' = k

\* C1: a call of cached_get(k) made less than TTL after the insertion of k's
\* entry issues no call of get and returns the stored value; a call made
\* when no entry was inserted, or TTL or more after the insertion, issues one
\* call of get, and when that get returns, its value is stored with the
\* expiry insertion time + TTL.
C1_CachedGetWithinTTL ==
    [][ /\ \A k \in Keys :
             CachedGetStarts(k) =>
                IF insertedAt[k] >= 0 /\ now - insertedAt[k] < TTL
                THEN /\ liveCalls' = liveCalls
                     /\ pc' = "done" /\ status' = "returned"
                     /\ result' = cache[k].value
                     /\ cache' = cache
                ELSE /\ liveCalls' = [liveCalls EXCEPT ![k] = @ + 1]
                     /\ pc' = "loop"
        /\ (op = "cached_get" /\ pc = "try" /\ pc' = "done" /\ status' = "returned") =>
             /\ cache'[key] = [present |-> TRUE, value |-> result', expires |-> now + TTL]
             /\ insertedAt'[key] = now
             /\ \A k \in Keys \ {key} : cache'[k] = cache[k]
        /\ (op = "cached_get" /\ pc' = "done" /\ status' = "raised") => cache' = cache
      ]_vars

\* a key was fetched, then served from the store, then fetched again after
\* its entry expired, and holds the entry of the second fetch
C1_Witness ==
    \E k \in Keys :
        /\ pc = "done" /\ op = "cached_get" /\ key = k /\ served = "miss"
        /\ status = "returned"
        /\ hits[k] = 1 /\ liveCalls[k] = 2
        /\ insertedAt[k] >= TTL
        /\ cache[k].expires = insertedAt[k] + TTL

\* C2: a get that meets a transport failure on attempts 1 and 2 goes on to a
\* third attempt, and when the third succeeds get returns its body after
\* exactly three attempts and exactly two sleeps.
C2_FailFailSucceed ==
    (op = "get" /\ Len(log) >= 1 /\ IsTransport(log[1])) =>
        /\ Len(log) = 1 => Running
        /\ (Len(log) = 2 /\ IsTransport(log[2])) => Running
        /\ (Len(log) >= 3 /\ IsTransport(log[2]) /\ ~log[3].raised) =>
              /\ Len(log) = 3
              /\ pc = "done" /\ status = "returned"
              /\ result = log[3].val
              /\ Len(sleeps) = 2

C2_Witness ==
    /\ op = "get" /\ pc = "done" /\ status = "returned"
    /\ Len(log) = 3 /\ IsTransport(log[1]) /\ IsTransport(log[2]) /\ ~log[3].raised
    /\ result = log[3].val /\ Len(sleeps) = 2

\* C3: while every attempt of a get or post fails with a transport error, at
\* most max_retries attempts are made; the call ends only after max_retries
\* attempts and max_retries - 1 sleeps, raising the error of the last attempt.
C3_ExhaustedRetries ==
    (op \in {"get", "post"} /\ AllOf(IsTransport)) =>
        /\ Len(log) <= max_retries
        /\ Len(sleeps) <= max_retries - 1
        /\ Len(log) < max_retries => Running
        /\ pc = "done" =>
              /\ Len(log) = max_retries
              /\ Len(sleeps) = max_retries - 1
              /\ status = "raised"
              /\ result = Exc("ConnectionError", max_retries)
              /\ result = log[Len(log)].val

C3_Witness ==
    /\ op = "post" /\ pc = "done" /\ status = "raised"
    /\ Len(log) = max_retries /\ AllOf(IsTransport)
    /\ Len(sleeps) = max_retries - 1
    /\ result = Exc("ConnectionError", max_retries)

\* C4 as claimed: a non-2xx status on the first attempt of a get or post ends
\* the call there: one attempt, no sleep, the error raised.
C4_HttpErrorNotRetried ==
    (op \in {"get", "post"} /\ Len(log) >= 1 /\ IsHttpError(log[1])) =>
        /\ pc = "done" /\ status = "raised"
        /\ Len(log) = 1
        /\ sleeps = <<>>

\* C4 amended: a non-2xx status is retried like a transport failure. After
\* an attempt that met a non-2xx status the call goes on while fewer than
\* max_retries attempts were made, and a call whose attempts all met a
\* non-2xx status ends after max_retries attempts and max_retries - 1 sleeps
\* raising the HTTPError of the last attempt. An error that is no
\* RequestException ends the call at the attempt that raised it.
C4_HttpErrorRetried ==
    (op \in {"get", "post"} /\ Len(log) >= 1) =>
        /\ IsHttpError(log[Len(log)]) =>
              /\ Len(log) <= max_retries
              /\ Len(log) < max_retries => Running
              /\ pc = "done" =>
                    /\ Len(log) = max_retries
                    /\ status = "raised"
                    /\ result = Exc("HTTPError", max_retries)
        /\ (AllOf(IsHttpError) /\ pc = "done") => Len(sleeps) = max_retries - 1
        /\ (log[Len(log)].raised /\ ~IsRequestException(log[Len(log)].val)) =>
              /\ pc = "done" /\ status = "raised"
              /\ result = log[Len(log)].val
              /\ Len(sleeps) = Len(log) - 1

C4_Witness ==
    /\ op = "get" /\ pc = "done" /\ status = "raised"
    /\ Len(log) = max_retries /\ AllOf(IsHttpError)
    /\ Len(sleeps) = max_retries - 1

\* C5: a finished health_check has returned a boolean, never raised, and the
\* boolean is true exactly when the last attempt of get succeeded with an
\* object whose status field is "healthy".
C5_HealthCheckNeverRaises ==
    (op = "health_check" /\ pc = "done") =>
        /\ status = "returned"
        /\ result \in {Bool(TRUE), Bool(FALSE)}
        /\ result = Bool(TRUE) <=>
              /\ Len(log) >= 1
              /\ ~log[Len(log)].raised
              /\ log[Len(log)].val = Json("object", "healthy")

\* the host was unreachable on every attempt and health_check returned false
C5_Witness ==
    /\ op = "health_check" /\ pc = "done"
    /\ Len(log) = max_retries /\ AllOf(IsTransport)
    /\ status = "returned" /\ result = Bool(FALSE)

C9_ClosedOnEveryExit ==
    (gen \in {"finished", "raised", "closed"} \/ abandoned) => conn # "open"

\* C9 amended: the connection is closed once the generator has left its with
\* block: after the body is exhausted, after a non-2xx status or a malformed
\* line raised, and after the generator a consumer abandoned has been closed
\* or finalised. Between the consumer's stopping and that close the
\* generator is suspended inside the with block with its connection open.
C9_ClosedWhenGeneratorExits ==
    /\ gen \in {"finished", "raised", "closed"} => conn # "open"
    /\ gen = "suspended" => conn = "open"

\* a consumer took a record, stopped, and the generator was then closed
C9_Witness ==
    /\ gen = "closed" /\ abandoned /\ yielded >= 1 /\ lines # <<>>
    /\ conn = "closed"

(***************************************************************************)
(* Properties of the data helpers                                          *)
(***************************************************************************)

\* the finished call was process_data(T, {'filter': {col: v}}) with col a
\* column of T
SingleFilterCall ==
    /\ dpc \in {"returned", "raised"}
    /\ Len(operations) = 1
    /\ operations[1].kind = "filter"
    /\ Len(operations[1].items) = 1
    /\ operations[1].items[1].col \in ColumnSet(before)

\* C6: process_data(T, {'filter': {col: v}}) with col a column of T returns
\* a table with T's columns whose rows are exactly the rows of T with
\* row[col] == v, in T's order: each returned row satisfies the condition and
\* no row that satisfies it is dropped.
C6_FilterKeepsExactlyMatches ==
    SingleFilterCall =>
        LET col == operations[1].items[1].col
            v == operations[1].items[1].value
        IN /\ dpc = "returned"
           /\ heap[dresult].columns = before.columns
           /\ \A i \in DOMAIN heap[dresult].rows : Eq(heap[dresult].rows[i][col], v)
           /\ heap[dresult].rows = SelectSeq(before.rows, LAMBDA r : Eq(r[col], v))

\* a filter kept one of two rows
C6_Witness ==
    /\ SingleFilterCall /\ dpc = "returned"
    /\ Len(before.rows) = 2
    /\ Len(heap[dresult].rows) = 1

\* C7 as claimed: in every result of generate_summary_stats the two lists
\* share no column and together hold every column of the table.
C7_PartitionTotalAndDisjoint ==
    stats.computed =>
        LET num == { stats.numeric_columns[i] : i \in DOMAIN stats.numeric_columns }
            cat == { stats.categorical_columns[i] : i \in DOMAIN stats.categorical_columns }
        IN /\ num \cap cat = {}
           /\ Cardinality(num \cup cat) = stats.column_count
           /\ num \cup cat = DOMAIN stats.missing_values

\* C8: from the call of process_data on, whether it is running, has returned
\* or has raised, the caller's table has the value it had at the call, and
\* the table returned is another object than the caller's.
C8_InputNotMutated ==
    dpc \in {"loop", "returned", "raised"} =>
        /\ heap[dfArg] = before
        /\ dpc = "returned" =>
              /\ dresult \in DOMAIN heap
              /\ dresult # dfArg

\* filter, group and sort were all applied and gave another table
C8_Witness ==
    /\ dpc = "returned" /\ Len(operations) = 3
    /\ heap[dresult] # before
    /\ heap[dfArg] = before

====
